---- MODULE Spec2Model ----
(***************************************************************************)
(* Rotation lambda for Aurora DSQL credentials held in AWS Secrets Manager *)
(* (lambda_function.py).  The secret store is modelled by the effect of    *)
(* the four API calls the lambda makes (describe_secret, get_secret_value, *)
(* put_secret_value, update_secret_version_stage); every such call is one  *)
(* atomic step, so that overlapping invocations interleave between calls.  *)
(***************************************************************************)
EXTENDS Integers, Sequences, FiniteSets, TLC

\* ------------------------------------------------------------------ bounds
\* Total number of lambda_handler invocations explored in one behaviour.
MaxInvocations == 3

\* ------------------------------------------------------------- vocabulary
Procs == {"i1", "i2"}
Versions == {"v1", "v2", "v3"}
None == "None"
Steps == {"createSecret", "setSecret", "testSecret", "finishSecret", "deleteSecret"}

\* expires_in_secs handed to GenerateAuthToken by create_secret
CreateExpiry == 28800

\* Usernames are character sequences, so that strip() and lower() compute.
UAppUser == <<"a", "p", "p">>
UAdminMixed == <<" ", "A", "d", "m", "i", "n">>
UEmpty == << >>

StaticPassword == [id |-> 0, expiry |-> 0, scope |-> "static"]

\* A secret document: the JSON object of SecretString.  keys is the set of
\* keys present in the object; a key that is absent carries a fixed filler.
MkDoc(keys, user, pw, engine) ==
  [keys |-> keys, username |-> user, password |-> pw,
   host |-> "db.example", engine |-> engine]

AllKeys == {"username", "password", "host", "engine"}
GoodDoc(user) == MkDoc(AllKeys, user, StaticPassword, "postgres")

\* Documents the AWSCURRENT version may hold when a rotation starts.
InitialCurrentDocs ==
  { GoodDoc(UAppUser), GoodDoc(UAdminMixed), GoodDoc(UEmpty),
    MkDoc(AllKeys, UAppUser, StaticPassword, "mysql"),
    MkDoc(AllKeys \ {"host"}, UAppUser, StaticPassword, "postgres") }

\* A document already stored for the pending version by an earlier attempt.
EarlierPendingDoc ==
  MkDoc(AllKeys, UAppUser, [id |-> 0, expiry |-> CreateExpiry, scope |-> "standard"],
        "postgres")

VARIABLES
  rotationEnabled,  \* "true" / "false" / "absent": RotationEnabled of describe_secret
  stages,           \* [Versions -> SUBSET labels]; {} = not in VersionIdsToStages
  docs,             \* partial function: version -> stored document
  tokensIssued,     \* number of auth tokens the signer has produced so far
  invocations,      \* number of lambda_handler invocations started so far
  pc,               \* per invocation slot: position in the code
  step,             \* event["Step"]
  token,            \* event["ClientRequestToken"]
  current_dict,     \* create_secret / test_secret local: << >> or <<doc>>
  current_version,  \* finish_secret local
  result,           \* outcome of the invocation
  calls,            \* external calls made by the invocation, in order
  conn,             \* database connection: "none" / "open" / "closed"
  cert,             \* temporary root certificate file: "none" / "exists" / "released"
  createdDoc,       \* history: token -> document stored when create_secret first returned
  afterCreate,      \* history: the invocation started after create_secret had returned
                    \* for its token
  attempts,         \* connect_and_authenticate: the psycopg.connect calls made, in
                    \* order, each [mode, out]
  finishedOk,       \* history: tokens for which finish_secret has returned normally
  phase,            \* scheduler of one rotation: 0 = not driving, 1..4 = the phase
                    \* to invoke, 5 = rotation complete
  retried           \* scheduler: some phase was re-invoked after a failure

store == <<rotationEnabled, stages, docs>>
locals == <<current_dict, current_version, conn, cert, attempts>>
vars == <<rotationEnabled, stages, docs, tokensIssued, invocations, pc, step, token,
          current_dict, current_version, result, calls, conn, cert,
          createdDoc, afterCreate, attempts, finishedOk, phase, retried>>
history == <<createdDoc, afterCreate, finishedOk>>
sched == <<phase, retried>>

\* ---------------------------------------------------------------- results
Pending == [status |-> "running", kind |-> "none", why |-> "none"]
Ok(why) == [status |-> "ok", kind |-> "none", why |-> why]
Raise(kind, why) == [status |-> "error", kind |-> kind, why |-> why]

\* ------------------------------------------------ AuthTokenGenerator (pure)
IsSpace(c) == c \in {" ", "\t", "\n"}

RECURSIVE LStrip(_)
LStrip(s) == IF s # << >> /\ IsSpace(Head(s)) THEN LStrip(Tail(s)) ELSE s

RECURSIVE RStrip(_)
RStrip(s) ==
  IF s # << >> /\ IsSpace(s[Len(s)]) THEN RStrip(SubSeq(s, 1, Len(s) - 1)) ELSE s

\* str.strip()
Strip(s) == RStrip(LStrip(s))

LowerChar(c) ==
  CASE c = "A" -> "a" [] c = "D" -> "d" [] c = "M" -> "m" [] c = "I" -> "i"
    [] c = "N" -> "n" [] c = "P" -> "p" [] OTHER -> c

\* str.lower()
Lower(s) == [i \in 1..Len(s) |-> LowerChar(s[i])]

\* Mutant: the comparison with "admin" is made without lower().
generate_auth_token_no_lower(username) ==
  IF username = << >>
    THEN "ValueError"
    ELSE IF Strip(username) = <<"a", "d", "m", "i", "n">>
           THEN "admin"
           ELSE "standard"

\* GenerateAuthToken.generate_auth_token: the exception it raises, or the
\* signing path it takes.
generate_auth_token(username) ==
  IF username = << >>
    THEN "ValueError"
    ELSE IF Lower(Strip(username)) = <<"a", "d", "m", "i", "n">>
           THEN "admin"
           ELSE "standard"

\* ------------------------------------------------------ SecretVersionStore
\* metadata["VersionIdsToStages"]: the versions that carry a staging label
VersionIdsToStages(st) == {v \in Versions : st[v] # {}}

\* get_secret_value(SecretId, VersionStage[, VersionId]): the set of versions
\* the call can return (empty: ResourceNotFoundException).
get_secret_value(dc, st, stage, tok) ==
  IF tok # None
    THEN {v \in {tok} : v \in DOMAIN dc /\ stage \in st[v]}
    ELSE {v \in DOMAIN dc : stage \in st[v]}

\* Mutant: a missing engine key is taken as the default 'postgres'.
secret_dict_error_engine_optional(d) ==
  IF "engine" \in d.keys /\ d.engine \notin {"postgres"}
    THEN "KeyError"
    ELSE IF \E field \in {"username", "password", "host"} : field \notin d.keys
           THEN "KeyError"
           ELSE "none"

\* The validations get_secret_dict runs on the parsed SecretString.
secret_dict_error(d) ==
  IF "engine" \notin d.keys \/ d.engine \notin {"postgres"}
    THEN "KeyError"
    ELSE IF \E field \in {"username", "password", "host"} : field \notin d.keys
           THEN "KeyError"
           ELSE "none"

\* Mutant: a put for a version that already holds a document is accepted.
put_allowed_always(dc, v, d) == TRUE

\* put_secret_value(ClientRequestToken = v, SecretString = d, VersionStages):
\* rejected when the version already holds a different document; the labels
\* given are moved to the version.
put_allowed(dc, v, d) == v \notin DOMAIN dc \/ dc[v] = d

put_docs(dc, v, d) == [w \in DOMAIN dc \cup {v} |-> IF w = v THEN d ELSE dc[w]]

put_stages(st, v, labels) ==
  [w \in Versions |-> IF w = v THEN st[w] \cup labels ELSE st[w] \ labels]

\* update_secret_version_stage(VersionStage, MoveToVersionId, RemoveFromVersionId):
\* the move is refused unless RemoveFromVersionId names the version that
\* holds the label (or is None while no version holds it).
update_allowed(st, label, moveTo, removeFrom) ==
  IF removeFrom = None
    THEN \A v \in Versions : label \notin st[v]
    ELSE label \in st[removeFrom]

\* Mutant: the label is attached to MoveToVersionId and left on the old version.
update_stages_keep_old(st, label, moveTo, removeFrom) ==
  [w \in Versions |-> IF w = moveTo THEN st[w] \cup {label} ELSE st[w]]

\* Secrets Manager moves AWSPREVIOUS to the version AWSCURRENT is taken from.
update_stages(st, label, moveTo, removeFrom) ==
  [w \in Versions |->
     IF w = moveTo THEN (st[w] \cup {label}) \ {"AWSPREVIOUS"}
     ELSE IF removeFrom = None THEN st[w]
     ELSE IF w = removeFrom THEN (st[w] \ {label}) \cup {"AWSPREVIOUS"}
     ELSE st[w] \ {"AWSPREVIOUS"}]

\* ------------------------------------------------------------------- Init
InitStore ==
  /\ rotationEnabled \in {"true", "false", "absent"}
  /\ \E prev \in BOOLEAN, cur \in InitialCurrentDocs, earlier \in BOOLEAN :
       /\ stages = [v \in Versions |->
                      CASE v = "v1" -> {"AWSCURRENT"}
                        [] v = "v2" -> {"AWSPENDING"}
                        [] OTHER -> IF prev THEN {"AWSPREVIOUS"} ELSE {}]
       /\ docs = [v \in {"v1"} \cup (IF earlier THEN {"v2"} ELSE {})
                                \cup (IF prev THEN {"v3"} ELSE {}) |->
                    CASE v = "v1" -> cur
                      [] v = "v2" -> EarlierPendingDoc
                      [] OTHER -> GoodDoc(UAppUser)]

\* No invocation has started.
InitIdle ==
  /\ tokensIssued = 0
  /\ invocations = 0
  /\ pc = [p \in Procs |-> "idle"]
  /\ step = [p \in Procs |-> "setSecret"]
  /\ token = [p \in Procs |-> "v1"]
  /\ current_dict = [p \in Procs |-> << >>]
  /\ current_version = [p \in Procs |-> None]
  /\ result = [p \in Procs |-> Pending]
  /\ calls = [p \in Procs |-> << >>]
  /\ conn = [p \in Procs |-> "none"]
  /\ cert = [p \in Procs |-> "none"]
  /\ createdDoc = [v \in {} |-> EarlierPendingDoc]
  /\ afterCreate = [p \in Procs |-> FALSE]
  /\ attempts = [p \in Procs |-> << >>]
  /\ finishedOk = {}
  /\ retried = FALSE

Init == InitStore /\ InitIdle /\ phase = 0

\* ---------------------------------------------------------------- helpers
Goto(p, where) == pc' = [pc EXCEPT ![p] = where]

Call(p, name) == calls' = [calls EXCEPT ![p] = Append(@, name)]

\* The invocation returns (normally or by an unhandled exception).
Return(p, res) ==
  /\ pc' = [pc EXCEPT ![p] = "done"]
  /\ result' = [result EXCEPT ![p] = res]

\* ---------------------------------------------------------- lambda_handler
\* lambda_handler is entered with event {SecretId, ClientRequestToken = t, Step = s}.
Start(p, s, t) ==
  /\ pc[p] \in {"idle", "done"}
  /\ step' = [step EXCEPT ![p] = s]
  /\ token' = [token EXCEPT ![p] = t]
  /\ afterCreate' = [afterCreate EXCEPT ![p] = (t \in DOMAIN createdDoc)]
  /\ Goto(p, "handler")
  /\ result' = [result EXCEPT ![p] = Pending]
  /\ calls' = [calls EXCEPT ![p] = << >>]
  /\ current_dict' = [current_dict EXCEPT ![p] = << >>]
  /\ current_version' = [current_version EXCEPT ![p] = None]
  /\ conn' = [conn EXCEPT ![p] = "none"]
  /\ cert' = [cert EXCEPT ![p] = "none"]
  /\ attempts' = [attempts EXCEPT ![p] = << >>]
  /\ UNCHANGED <<store, tokensIssued, createdDoc, finishedOk>>

\* The scheduler delivers an event {SecretId, ClientRequestToken, Step}.
Invoke(p) ==
  /\ invocations < MaxInvocations
  /\ invocations' = invocations + 1
  /\ \E s \in Steps, t \in Versions : Start(p, s, t)
  /\ UNCHANGED sched

\* Mutant: AWSPENDING is demanded before AWSCURRENT is looked at.
staging_check_pending_first(rot, st, tok) ==
  IF rot = "false" THEN "not_enabled"
  ELSE IF tok \notin VersionIdsToStages(st) THEN "no_stage"
  ELSE IF "AWSPENDING" \notin st[tok] THEN "not_pending"
  ELSE IF "AWSCURRENT" \in st[tok] THEN "already_current"
  ELSE "dispatch"

\* Mutant: the AWSCURRENT short-circuit is taken before RotationEnabled is read.
staging_check_current_first(rot, st, tok) ==
  IF tok \in VersionIdsToStages(st) /\ "AWSCURRENT" \in st[tok] THEN "already_current"
  ELSE IF rot = "false" THEN "not_enabled"
  ELSE IF tok \notin VersionIdsToStages(st) THEN "no_stage"
  ELSE IF "AWSPENDING" \notin st[tok] THEN "not_pending"
  ELSE "dispatch"

\* The staging checks of lambda_handler on the metadata describe_secret
\* returned, in the order the code makes them.
staging_check(rot, st, tok) ==
  IF rot = "false" THEN "not_enabled"
  ELSE IF tok \notin VersionIdsToStages(st) THEN "no_stage"
  ELSE IF "AWSCURRENT" \in st[tok] THEN "already_current"
  ELSE IF "AWSPENDING" \notin st[tok] THEN "not_pending"
  ELSE "dispatch"

\* Mutant: the final else of the dispatch falls through to createSecret.
step_entry_default_create(s) ==
  CASE s = "setSecret" -> "set_secret"
    [] s = "testSecret" -> "test_get_pending"
    [] s = "finishSecret" -> "finish_describe"
    [] OTHER -> "create_get_current"

\* "Call the appropriate step": the first position of the phase function.
step_entry(s) ==
  CASE s = "createSecret" -> "create_get_current"
    [] s = "setSecret" -> "set_secret"
    [] s = "testSecret" -> "test_get_pending"
    [] s = "finishSecret" -> "finish_describe"
    [] OTHER -> "invalid_step"

\* describe_secret, the staging checks and the dispatch on Step.
Handler(p) ==
  /\ pc[p] = "handler"
  /\ Call(p, "describe_secret")
  /\ LET chk == staging_check(rotationEnabled, stages, token[p])
         entry == step_entry(step[p]) IN
       CASE chk = "already_current" -> Return(p, Ok("already_current"))
         [] chk = "dispatch" /\ entry # "invalid_step" ->
              Goto(p, entry) /\ UNCHANGED result
         [] chk = "dispatch" /\ entry = "invalid_step" ->
              Return(p, Raise("ValueError", "invalid_step"))
         [] OTHER -> Return(p, Raise("ValueError", chk))
  /\ UNCHANGED <<store, tokensIssued, invocations, step, token, locals, history, sched>>

\* ----------------------------------------------------------- create_secret
\* get_secret_dict(arn, "AWSCURRENT")
CreateGetCurrent(p) ==
  /\ pc[p] = "create_get_current"
  /\ Call(p, "get_secret_value")
  /\ LET found == get_secret_value(docs, stages, "AWSCURRENT", None) IN
       IF found = {}
         THEN /\ Return(p, Raise("ResourceNotFoundException", "get_current"))
              /\ UNCHANGED current_dict
         ELSE \E v \in found :
                IF secret_dict_error(docs[v]) # "none"
                  THEN /\ Return(p, Raise(secret_dict_error(docs[v]), "get_current"))
                       /\ UNCHANGED current_dict
                  ELSE /\ current_dict' = [current_dict EXCEPT ![p] = <<docs[v]>>]
                       /\ Goto(p, "create_get_pending")
                       /\ UNCHANGED result
  /\ UNCHANGED <<store, tokensIssued, invocations, step, token, current_version,
                 conn, cert, attempts, history, sched>>

\* create_secret has returned normally: remember what the store holds for it.
RecordCreated(t, d) ==
  createdDoc' = IF t \in DOMAIN createdDoc THEN createdDoc ELSE createdDoc @@ (t :> d)

\* Mutant: the lookup of an existing AWSPENDING document is skipped.
pending_lookup_skipped(dc, st, tok) == "ResourceNotFoundException"

\* get_secret_dict(arn, "AWSPENDING", token) as create_secret sees it: the
\* exception raised, or "none".
pending_lookup(dc, st, tok) ==
  IF get_secret_value(dc, st, "AWSPENDING", tok) = {}
    THEN "ResourceNotFoundException"
    ELSE secret_dict_error(dc[tok])

\* try: get_secret_dict(arn, "AWSPENDING", token)
\* except ResourceNotFoundException: go on to generate and put
CreateGetPending(p) ==
  /\ pc[p] = "create_get_pending"
  /\ Call(p, "get_secret_value")
  /\ LET looked == pending_lookup(docs, stages, token[p]) IN
       CASE looked = "ResourceNotFoundException" ->
              /\ Goto(p, "create_generate")
              /\ UNCHANGED <<result, createdDoc>>
         [] looked = "none" ->
              /\ Return(p, Ok("pending_exists"))
              /\ RecordCreated(token[p], docs[token[p]])
         [] OTHER ->
              /\ Return(p, Raise(looked, "get_pending"))
              /\ UNCHANGED createdDoc
  /\ UNCHANGED <<store, tokensIssued, invocations, step, token, locals, afterCreate,
                 finishedOk, sched>>

\* expires_in_secs default of GenerateAuthToken.__init__
DefaultExpiry == 900

\* Mutant: the generator is built without the 28800 argument.
new_token_default_expiry(n, path) == [id |-> n, expiry |-> DefaultExpiry, scope |-> path]

\* The n-th token of the signer, as requested by create_secret.
new_token(n, path) == [id |-> n, expiry |-> CreateExpiry, scope |-> path]

\* GenerateAuthToken(current_dict["host"], 28800).generate_auth_token(username)
\* and the assignment to current_dict["password"]
CreateGenerate(p) ==
  /\ pc[p] = "create_generate"
  /\ LET d == current_dict[p][1]
         path == generate_auth_token(d.username) IN
       IF path = "ValueError"
         THEN /\ Return(p, Raise("ValueError", "empty_username"))
              /\ UNCHANGED <<tokensIssued, current_dict, calls>>
         ELSE /\ tokensIssued' = tokensIssued + 1
              /\ Call(p, IF path = "admin" THEN "generate_db_connect_admin_auth_token"
                                           ELSE "generate_db_connect_auth_token")
              /\ current_dict' =
                   [current_dict EXCEPT ![p] =
                      <<[d EXCEPT !.keys = @ \cup {"password"},
                                  !.password = new_token(tokensIssued + 1, path)]>>]
              /\ Goto(p, "create_put")
              /\ UNCHANGED result
  /\ UNCHANGED <<store, invocations, step, token, current_version, conn, cert,
                 attempts, history, sched>>

\* put_secret_value(ClientRequestToken=token, SecretString=json.dumps(current_dict),
\*                  VersionStages=["AWSPENDING"])
CreatePut(p) ==
  /\ pc[p] = "create_put"
  /\ Call(p, "put_secret_value")
  /\ LET d == current_dict[p][1] IN
       IF put_allowed(docs, token[p], d)
         THEN /\ docs' = put_docs(docs, token[p], d)
              /\ stages' = put_stages(stages, token[p], {"AWSPENDING"})
              /\ Return(p, Ok("put_done"))
              /\ RecordCreated(token[p], d)
         ELSE /\ Return(p, Raise("ResourceExistsException", "put"))
              /\ UNCHANGED <<docs, stages, createdDoc>>
  /\ UNCHANGED <<rotationEnabled, tokensIssued, invocations, step, token, locals,
                 afterCreate, finishedOk, sched>>

\* -------------------------------------------------------------- set_secret
SetSecret(p) ==
  /\ pc[p] = "set_secret"
  /\ Return(p, Ok("set_secret"))
  /\ UNCHANGED <<store, tokensIssued, invocations, step, token, locals, calls, history,
                 sched>>

\* ------------------------------------------------------------- test_secret
\* get_secret_dict(arn, "AWSPENDING", token); get_connection takes the default
\* port and dbname (the documents carry neither key).
TestGetPending(p) ==
  /\ pc[p] = "test_get_pending"
  /\ Call(p, "get_secret_value")
  /\ LET found == get_secret_value(docs, stages, "AWSPENDING", token[p]) IN
       IF found = {}
         THEN /\ Return(p, Raise("ResourceNotFoundException", "get_pending"))
              /\ UNCHANGED current_dict
         ELSE IF secret_dict_error(docs[token[p]]) # "none"
                THEN /\ Return(p, Raise(secret_dict_error(docs[token[p]]), "get_pending"))
                     /\ UNCHANGED current_dict
                ELSE /\ current_dict' = [current_dict EXCEPT ![p] = <<docs[token[p]]>>]
                     /\ Goto(p, "connect_cert")
                     /\ UNCHANGED result
  /\ UNCHANGED <<store, tokensIssued, invocations, step, token, current_version,
                 conn, cert, attempts, history, sched>>

\* get_amazon_root_cert: the temporary file is created, then the download
\* either fills it or fails, in which case the file is unlinked and the
\* exception re-raised.
FetchCert(p, fetched) ==
  /\ pc[p] = "connect_cert"
  /\ IF fetched
       THEN /\ cert' = [cert EXCEPT ![p] = "exists"]
            /\ calls' = [calls EXCEPT ![p] = Append(@, "requests.get")]
            /\ Goto(p, "connect_verify_full")
            /\ UNCHANGED result
       ELSE /\ cert' = [cert EXCEPT ![p] = "released"]
            /\ calls' = [calls EXCEPT ![p] = Append(Append(@, "requests.get"), "os.unlink")]
            /\ Return(p, Raise("Exception", "cert_fetch"))
  /\ UNCHANGED <<store, tokensIssued, invocations, step, token, current_dict,
                 current_version, conn, attempts, history, sched>>

GetAmazonRootCert(p) == \E fetched \in BOOLEAN : FetchCert(p, fetched)

\* Mutant: the finally clause is missing.
release_cert_never(c) == c

\* finally: if cert_path and os.path.exists(cert_path): os.unlink(cert_path)
release_cert(c) == IF c = "exists" THEN "released" ELSE c

release_calls(c) == IF c = "exists" THEN <<"os.unlink">> ELSE << >>

\* What psycopg.connect can do: return a connection, raise a psycopg.Error,
\* raise something else.
ConnectOutcomes == {"connected", "psycopg.Error", "Exception"}

\* Mutant: the fallback is taken on any exception (except Exception).
after_verify_full_any_error(outcome) ==
  CASE outcome = "connected" -> "return"
    [] OTHER -> "fallback"

\* What connect_and_authenticate does after the verify-full attempt: return
\* the connection, fall back to sslmode=require, or let the exception out.
after_verify_full(outcome) ==
  CASE outcome = "connected" -> "return"
    [] outcome = "psycopg.Error" -> "fallback"
    [] OTHER -> "raise"

\* What it does after the require attempt ("return" with no connection
\* stands for return None).
after_require(outcome) ==
  CASE outcome = "connected" -> "return"
    [] outcome = "psycopg.Error" -> "return_none"
    [] OTHER -> "raise"

\* psycopg.connect(sslmode="verify-full", sslrootcert=cert_path)
VerifyFullAttempt(p, outcome) ==
  /\ pc[p] = "connect_verify_full"
  /\ attempts' = [attempts EXCEPT ![p] = Append(@, [mode |-> "verify-full", out |-> outcome])]
  /\ LET todo == after_verify_full(outcome) IN
       CASE todo = "return" ->
              /\ conn' = [conn EXCEPT ![p] = "open"]
              /\ cert' = [cert EXCEPT ![p] = release_cert(@)]
              /\ calls' = [calls EXCEPT ![p] =
                             Append(@, "connect_verify_full") \o release_calls(cert[p])]
              /\ Goto(p, "test_connected")
              /\ UNCHANGED result
         [] todo = "fallback" ->
              /\ calls' = [calls EXCEPT ![p] = Append(@, "connect_verify_full")]
              /\ Goto(p, "connect_require")
              /\ UNCHANGED <<conn, cert, result>>
         [] OTHER ->
              /\ cert' = [cert EXCEPT ![p] = release_cert(@)]
              /\ calls' = [calls EXCEPT ![p] =
                             Append(@, "connect_verify_full") \o release_calls(cert[p])]
              /\ Return(p, Raise("Exception", "connect"))
              /\ UNCHANGED conn
  /\ UNCHANGED <<store, tokensIssued, invocations, step, token, current_dict,
                 current_version, history, sched>>

ConnectVerifyFull(p) == \E outcome \in ConnectOutcomes : VerifyFullAttempt(p, outcome)

\* except psycopg.Error: psycopg.connect(sslmode="require"); a second
\* psycopg.Error makes connect_and_authenticate return None.
RequireAttempt(p, outcome) ==
  /\ pc[p] = "connect_require"
  /\ attempts' = [attempts EXCEPT ![p] = Append(@, [mode |-> "require", out |-> outcome])]
  /\ cert' = [cert EXCEPT ![p] = release_cert(@)]
  /\ calls' = [calls EXCEPT ![p] = Append(@, "connect_require") \o release_calls(cert[p])]
  /\ LET todo == after_require(outcome) IN
       CASE todo = "return" ->
              /\ conn' = [conn EXCEPT ![p] = "open"]
              /\ Goto(p, "test_connected")
              /\ UNCHANGED result
         [] todo = "return_none" ->
              /\ Goto(p, "test_connected")
              /\ UNCHANGED <<conn, result>>
         [] OTHER ->
              /\ Return(p, Raise("Exception", "connect"))
              /\ UNCHANGED conn
  /\ UNCHANGED <<store, tokensIssued, invocations, step, token, current_dict,
                 current_version, history, sched>>

ConnectRequire(p) == \E outcome \in ConnectOutcomes : RequireAttempt(p, outcome)

\* Mutant: a failed liveness query is reported like a failed login.
test_result_query_as_login(c, outcome) ==
  IF c = "open"
    THEN IF outcome = "committed" THEN Ok("tested") ELSE Raise("ValueError", "query")
    ELSE Raise("ValueError", "login_failed")

\* How test_secret ends: conn is what get_connection returned, outcome what
\* cur.execute / conn.commit did on it.
test_result(c, outcome) ==
  IF c = "open"
    THEN IF outcome = "committed" THEN Ok("tested") ELSE Raise("psycopg.Error", "query")
    ELSE Raise("ValueError", "login_failed")

\* Mutant: conn.close() follows the commit instead of standing in a finally.
conn_after_query_no_finally(outcome) == IF outcome = "committed" THEN "closed" ELSE "open"

\* finally: conn.close()
conn_after_query(outcome) == "closed"

\* if conn: execute, commit, and close in the finally; else raise ValueError
RunQuery(p, outcome) ==
  /\ pc[p] = "test_connected"
  /\ IF conn[p] = "open"
       THEN /\ conn' = [conn EXCEPT ![p] = conn_after_query(outcome)]
            /\ calls' = [calls EXCEPT ![p] =
                           @ \o (IF outcome = "committed"
                                   THEN <<"execute", "commit">>
                                   ELSE <<"execute">>)
                             \o (IF conn_after_query(outcome) = "closed"
                                   THEN <<"close">> ELSE << >>)]
            /\ Return(p, test_result(conn[p], outcome))
       ELSE /\ Return(p, test_result(conn[p], "none"))
            /\ UNCHANGED <<conn, calls>>
  /\ UNCHANGED <<store, tokensIssued, invocations, step, token, current_dict,
                 current_version, cert, attempts, history, sched>>

TestConnected(p) == \E outcome \in {"committed", "psycopg.Error"} : RunQuery(p, outcome)

\* ----------------------------------------------------------- finish_secret
\* Mutant: the early return is missing.
already_current_never(version, tok) == FALSE

\* Mutant: the comparison with the attempt token is inverted.
already_current_inverted(version, tok) == version # tok

\* if version == token: the correct version is already marked as current
already_current(version, tok) == version = tok

\* describe_secret and the loop over VersionIdsToStages
FinishDescribe(p) ==
  /\ pc[p] = "finish_describe"
  /\ Call(p, "describe_secret")
  /\ LET holders == {v \in VersionIdsToStages(stages) : "AWSCURRENT" \in stages[v]} IN
       IF holders = {}
         THEN /\ Goto(p, "finish_update")
              /\ UNCHANGED <<current_version, result, finishedOk>>
         ELSE \E version \in holders :
                IF already_current(version, token[p])
                  THEN /\ Return(p, Ok("finish_noop"))
                       /\ finishedOk' = finishedOk \cup {token[p]}
                       /\ UNCHANGED current_version
                  ELSE /\ current_version' = [current_version EXCEPT ![p] = version]
                       /\ Goto(p, "finish_update")
                       /\ UNCHANGED <<result, finishedOk>>
  /\ UNCHANGED <<store, tokensIssued, invocations, step, token, current_dict,
                 conn, cert, attempts, createdDoc, afterCreate, sched>>

\* update_secret_version_stage(VersionStage="AWSCURRENT", MoveToVersionId=token,
\*                             RemoveFromVersionId=current_version)
FinishUpdate(p) ==
  /\ pc[p] = "finish_update"
  /\ Call(p, "update_secret_version_stage")
  /\ IF update_allowed(stages, "AWSCURRENT", token[p], current_version[p])
       THEN /\ stages' = update_stages(stages, "AWSCURRENT", token[p], current_version[p])
            /\ Return(p, Ok("finished"))
            /\ finishedOk' = finishedOk \cup {token[p]}
       ELSE /\ Return(p, Raise("InvalidParameterException", "update"))
            /\ UNCHANGED <<stages, finishedOk>>
  /\ UNCHANGED <<rotationEnabled, docs, tokensIssued, invocations, step, token,
                 locals, createdDoc, afterCreate, sched>>

\* ------------------------------------------------------------------- Next
Next ==
  \E p \in Procs :
    \/ Invoke(p)
    \/ Handler(p)
    \/ CreateGetCurrent(p)
    \/ CreateGetPending(p)
    \/ CreateGenerate(p)
    \/ CreatePut(p)
    \/ SetSecret(p)
    \/ TestGetPending(p)
    \/ GetAmazonRootCert(p)
    \/ ConnectVerifyFull(p)
    \/ ConnectRequire(p)
    \/ TestConnected(p)
    \/ FinishDescribe(p)
    \/ FinishUpdate(p)

Spec == Init /\ [][Next]_vars

\* ================================================================= claims
CurrentHolders(st) == {v \in Versions : "AWSCURRENT" \in st[v]}

NoEffects(p) ==
  /\ UNCHANGED <<store, tokensIssued>>
  /\ calls'[p] = <<"describe_secret">>
  /\ conn'[p] = "none"
  /\ cert'[p] = "none"

HandlerStep(p) == pc[p] = "handler" /\ pc'[p] # "handler"

Count(sq, names) == Cardinality({i \in 1..Len(sq) : sq[i] \in names})

GenerateCalls == {"generate_db_connect_admin_auth_token", "generate_db_connect_auth_token"}

\* C1: in every reachable state at most one version of the secret holds
\* AWSCURRENT, whatever invocations run and however their store calls interleave.
C1_AtMostOneCurrent == Cardinality(CurrentHolders(stages)) <= 1

\* C1 witness: two overlapping finishSecret invocations both reached their move
\* of the label; one moved it, the store refused the other.
C1_Witness ==
  \E p \in Procs, q \in Procs :
    /\ result[p] = Ok("finished")
    /\ result[q] = Raise("InvalidParameterException", "update")
    /\ CurrentHolders(stages) = {token[p]}

\* C2: whenever finish_secret returns normally, the resulting store state has
\* exactly one version holding AWSCURRENT, it is the attempt token's version,
\* and the version that held AWSCURRENT before the step no longer holds it.
C2_FinishMakesTokenCurrent ==
  [][\A p \in Procs :
       (pc[p] \in {"finish_describe", "finish_update"} /\ pc'[p] = "done"
          /\ result'[p].status = "ok")
       => /\ CurrentHolders(stages') = {token[p]}
          /\ \A v \in CurrentHolders(stages) \ {token[p]} : "AWSCURRENT" \notin stages'[v]]_vars

\* C2 witness: finish_secret moved AWSCURRENT from v1 to the pending version v2.
C2_Witness ==
  \E p \in Procs :
    /\ step[p] = "finishSecret" /\ result[p] = Ok("finished") /\ token[p] = "v2"
    /\ "AWSCURRENT" \in stages["v2"] /\ "AWSCURRENT" \notin stages["v1"]

\* C3: when rotation is not reported disabled and the attempt token's version
\* already carries AWSCURRENT, lambda_handler returns success for every Step
\* and does nothing but the describe_secret call: store unchanged, no token
\* generated, no put, no stage update, no certificate, no connection.
C3_CurrentShortCircuit ==
  [][\A p \in Procs :
       (HandlerStep(p) /\ rotationEnabled # "false" /\ "AWSCURRENT" \in stages[token[p]])
       => /\ pc'[p] = "done"
          /\ result'[p] = Ok("already_current")
          /\ NoEffects(p)]_vars

\* C3 witness: an invocation with an unrecognised Step short-circuited.
C3_Witness ==
  \E p \in Procs :
    /\ pc[p] = "done" /\ result[p] = Ok("already_current")
    /\ step[p] = "deleteSecret"
    /\ rotationEnabled = "true"
    /\ calls[p] = <<"describe_secret">>

\* C4: once create_secret has returned normally for a token, the store keeps
\* holding for that token the AWSPENDING document it held at that return, and
\* a createSecret invocation started afterwards for the same token generates
\* no auth token and issues no put_secret_value.
C4_CreateIdempotent ==
  /\ \A t \in DOMAIN createdDoc :
       /\ t \in DOMAIN docs
       /\ docs[t] = createdDoc[t]
       /\ "AWSPENDING" \in stages[t]
  /\ \A p \in Procs :
       (step[p] = "createSecret" /\ afterCreate[p])
       => /\ Count(calls[p], GenerateCalls \cup {"put_secret_value"}) = 0
          /\ (pc[p] = "done" /\ Len(calls[p]) = 3 => result[p] = Ok("pending_exists"))

\* C4 witness: a second createSecret for the token ran create_secret to its
\* end after a first one had generated a token and put the document.
C4_Witness ==
  \E p \in Procs :
    /\ step[p] = "createSecret" /\ afterCreate[p]
    /\ pc[p] = "done" /\ result[p] = Ok("pending_exists")
    /\ createdDoc[token[p]].password.id = 1
    /\ tokensIssued = 1

\* C5 (as claimed): lambda_handler fails before dispatching whenever
\* describe_secret does not report rotation as enabled (flag false or flag
\* absent), and goes past the check only when rotation is reported enabled.
C5_FailsUnlessReportedEnabled ==
  [][\A p \in Procs :
       HandlerStep(p)
       => /\ rotationEnabled # "true"
               => (pc'[p] = "done" /\ result'[p] = Raise("ValueError", "not_enabled"))
          /\ result'[p] # Raise("ValueError", "not_enabled") => rotationEnabled = "true"]_vars

\* C6: the outcome of the staging checks is that of the first check that
\* fires, in the order: rotation reported disabled, token without a stage,
\* token already AWSCURRENT (success), token not AWSPENDING; only then is the
\* step dispatched.
C6_CheckOrder ==
  [][\A p \in Procs :
       HandlerStep(p)
       => LET labels == stages[token[p]] IN
            IF rotationEnabled = "false"
              THEN pc'[p] = "done" /\ result'[p] = Raise("ValueError", "not_enabled")
            ELSE IF labels = {}
              THEN pc'[p] = "done" /\ result'[p] = Raise("ValueError", "no_stage")
            ELSE IF "AWSCURRENT" \in labels
              THEN pc'[p] = "done" /\ result'[p] = Ok("already_current")
            ELSE IF "AWSPENDING" \notin labels
              THEN pc'[p] = "done" /\ result'[p] = Raise("ValueError", "not_pending")
            ELSE \/ pc'[p] = "done" /\ result'[p] = Raise("ValueError", "invalid_step")
                 \/ pc'[p] # "done" /\ result'[p] = Pending]_vars

\* C6 witness: a token carrying both AWSCURRENT and AWSPENDING short-circuited
\* a finishSecret invocation, which made no call but describe_secret.
C6_Witness ==
  \E p \in Procs :
    /\ pc[p] = "done" /\ result[p] = Ok("already_current")
    /\ {"AWSCURRENT", "AWSPENDING"} \subseteq stages[token[p]]
    /\ step[p] = "finishSecret"
    /\ calls[p] = <<"describe_secret">>

\* C7: an invocation that meets a failing staging check (rotation reported
\* disabled, token without a stage, token neither AWSCURRENT nor AWSPENDING)
\* or, past the checks, an unrecognised Step, ends in failure at once, leaves
\* the store as it found it and runs no part of any phase.
C7_FailureHasNoEffect ==
  [][\A p \in Procs :
       (HandlerStep(p)
          /\ \/ rotationEnabled = "false"
             \/ stages[token[p]] = {}
             \/ stages[token[p]] \cap {"AWSCURRENT", "AWSPENDING"} = {}
             \/ step[p] \notin {"createSecret", "setSecret", "testSecret", "finishSecret"}
                  /\ "AWSCURRENT" \notin stages[token[p]])
       => /\ pc'[p] = "done"
          /\ result'[p].status = "error"
          /\ NoEffects(p)]_vars

\* C7 witness: an unrecognised Step for a token staged AWSPENDING was refused.
C7_Witness ==
  \E p \in Procs :
    /\ pc[p] = "done" /\ result[p] = Raise("ValueError", "invalid_step")
    /\ "AWSPENDING" \in stages[token[p]]
    /\ calls[p] = <<"describe_secret">>
    /\ token[p] \notin DOMAIN docs

\* C8: a create_secret that finds no AWSPENDING document reads the AWSCURRENT
\* document, generates exactly one auth token with expiry 28800 and puts,
\* under the attempt token staged AWSPENDING, that document with only the
\* password replaced by the token; the put leaves every version holding
\* AWSCURRENT with its label and every stored document as it was.
C8_CreateStoresCopyOfCurrent ==
  [][\A p \in Procs :
       /\ (pc[p] = "create_get_current" /\ pc'[p] = "create_get_pending")
            => \E v \in CurrentHolders(stages) :
                 v \in DOMAIN docs /\ current_dict'[p] = <<docs[v]>>
       /\ (pc[p] = "create_generate" /\ pc'[p] = "create_put")
            => /\ tokensIssued' = tokensIssued + 1
               /\ Len(current_dict'[p]) = 1
               /\ current_dict'[p][1] =
                    [current_dict[p][1] EXCEPT !.password = current_dict'[p][1].password]
               /\ current_dict'[p][1].password.id = tokensIssued'
               /\ current_dict'[p][1].password.expiry = 28800
               /\ current_dict'[p][1].password.scope \in {"admin", "standard"}
       /\ (pc[p] = "create_put" /\ pc'[p] = "done" /\ result'[p].status = "ok")
            => /\ token[p] \notin DOMAIN docs
               /\ Count(calls'[p], GenerateCalls) = 1
               /\ Count(calls'[p], {"put_secret_value"}) = 1
               /\ docs'[token[p]] = current_dict[p][1]
               /\ "AWSPENDING" \in stages'[token[p]]
               /\ \A v \in CurrentHolders(stages) : "AWSCURRENT" \in stages'[v]
               /\ \A v \in DOMAIN docs : docs'[v] = docs[v]
               /\ DOMAIN docs' = DOMAIN docs \cup {token[p]}
               /\ \A v \in Versions \ {token[p]} : stages'[v] = stages[v]]_vars

\* C8 witness: create_secret put a document for v2 that is the document of v1
\* (still AWSCURRENT, unchanged) with the password replaced by the first token.
C8_Witness ==
  \E p \in Procs :
    /\ step[p] = "createSecret" /\ result[p] = Ok("put_done") /\ token[p] = "v2"
    /\ "AWSCURRENT" \in stages["v1"]
    /\ docs["v2"] = [docs["v1"] EXCEPT !.password = [id |-> 1, expiry |-> 28800,
                                                     scope |-> "admin"]]
    /\ docs["v1"].password = StaticPassword

\* C9: a stored document never changes: every step keeps every stored version
\* with its content; a put that takes effect writes a version with no stored
\* document, and a put for a version that holds one is refused by the store.
C9_DocumentsImmutable ==
  [][/\ \A v \in DOMAIN docs : v \in DOMAIN docs' /\ docs'[v] = docs[v]
     /\ \A p \in Procs :
          (pc[p] = "create_put" /\ pc'[p] = "done")
          => IF token[p] \in DOMAIN docs
               THEN result'[p] = Raise("ResourceExistsException", "put") /\ docs' = docs
               ELSE result'[p] = Ok("put_done")
                      /\ DOMAIN docs' = DOMAIN docs \cup {token[p]}]_vars

\* C9 witness: a put for a version another invocation had already written
\* was refused, and the stored document is the first one.
C9_Witness ==
  \E p \in Procs, q \in Procs :
    /\ result[p] = Raise("ResourceExistsException", "put")
    /\ result[q] = Ok("put_done")
    /\ token[p] = token[q]
    /\ docs[token[p]] = current_dict[q][1]
    /\ docs[token[p]] # current_dict[p][1]

TestPcs ==
  {"test_get_pending", "connect_cert", "connect_verify_full", "connect_require",
   "test_connected"}

\* C10 (as claimed): test_secret succeeds iff a connection was established and
\* the liveness query and commit succeeded; it fails with the same error kind
\* (ValueError) when no connection is returned and when the query fails.
C10_QueryFailureIsValueError ==
  \A p \in Procs :
    (pc[p] = "done" /\ step[p] = "testSecret" /\ Len(calls[p]) > 1)
    => /\ result[p].status = "ok" <=> (conn[p] = "closed" /\ Count(calls[p], {"commit"}) = 1)
       /\ result[p].why = "login_failed" => result[p].kind = "ValueError"
       /\ result[p].why = "query" => result[p].kind = "ValueError"

\* C10 (amended): test_secret succeeds iff a connection was established (under
\* either TLS tier) and the liveness query and commit succeeded; it raises
\* ValueError when connect_and_authenticate returns no connection, and lets
\* the driver's own error (psycopg.Error) through when the query or commit
\* fails on an established connection.  No step of test_secret changes the store.
C10_TestSecretOutcome ==
  [][\A p \in Procs :
       (pc[p] \in TestPcs /\ pc'[p] # pc[p])
       => /\ UNCHANGED store
          /\ pc'[p] = "done" =>
               /\ result'[p].status = "ok"
                    <=> /\ conn[p] = "open"
                        /\ Count(calls'[p], {"commit"}) = 1
                        /\ Count(calls'[p], {"connect_verify_full", "connect_require"}) >= 1
               /\ (pc[p] = "test_connected" /\ conn[p] # "open")
                    => result'[p] = Raise("ValueError", "login_failed")
               /\ (pc[p] = "test_connected" /\ conn[p] = "open" /\ result'[p].status # "ok")
                    => /\ result'[p] = Raise("psycopg.Error", "query")
                       /\ Count(calls'[p], {"commit"}) = 0
               /\ conn'[p] # "open"]_vars

\* C10 witness: the liveness query failed on a connection established by the
\* encryption-only fallback, and the invocation ended with the driver's error.
C10_Witness ==
  \E p \in Procs :
    /\ step[p] = "testSecret" /\ pc[p] = "done"
    /\ result[p] = Raise("psycopg.Error", "query")
    /\ conn[p] = "closed"
    /\ Count(calls[p], {"connect_require"}) = 1

\* C11: the temporary root certificate exists only while connect_and_authenticate
\* is between its acquisition and its exit; once the routine has returned or
\* raised (by any path) the file is gone and was unlinked exactly once, and a
\* failed acquisition leaves no file behind.
C11_CertReleasedOnce ==
  \A p \in Procs :
    /\ cert[p] = "exists" => pc[p] \in {"connect_verify_full", "connect_require"}
    /\ pc[p] \in {"connect_verify_full", "connect_require"}
         => cert[p] = "exists" /\ Count(calls[p], {"os.unlink"}) = 0
    /\ (pc[p] \in {"test_connected", "done"} /\ Count(calls[p], {"requests.get"}) = 1)
         => cert[p] = "released" /\ Count(calls[p], {"os.unlink"}) = 1
    /\ Count(calls[p], {"requests.get"}) = 0
         => cert[p] = "none" /\ Count(calls[p], {"os.unlink"}) = 0

\* C11 witness: the fallback attempt raised something other than a driver
\* error, the invocation failed, and the certificate had been unlinked once.
C11_Witness ==
  \E p \in Procs :
    /\ pc[p] = "done" /\ result[p] = Raise("Exception", "connect")
    /\ Len(attempts[p]) = 2 /\ attempts[p][2].out = "Exception"
    /\ cert[p] = "released"
    /\ Count(calls[p], {"os.unlink"}) = 1

\* ------------------------------------------------ connect_and_authenticate
Last(sq) == sq[Len(sq)]

Connected(sq) == {i \in 1..Len(sq) : sq[i].out = "connected"}

\* C15: in each call of connect_and_authenticate the verify-full attempt
\* comes first and each tier is tried at most once; the require attempt is
\* made only after verify-full failed with a psycopg.Error; the routine
\* returns a connection iff one of the attempts connected, and returns
\* without a connection and without raising when both fail with psycopg.Error.
C15_TieredFallback ==
  \A p \in Procs :
    LET a == attempts[p] IN
      /\ Len(a) <= 2
      /\ Len(a) >= 1 => a[1].mode = "verify-full"
      /\ Len(a) = 2 => a[2].mode = "require" /\ a[1].out = "psycopg.Error"
      /\ Count(calls[p], {"connect_verify_full"}) = (IF Len(a) >= 1 THEN 1 ELSE 0)
      /\ Count(calls[p], {"connect_require"}) = (IF Len(a) = 2 THEN 1 ELSE 0)
      /\ pc[p] = "connect_verify_full" => a = << >>
      /\ pc[p] = "connect_require" => Len(a) = 1
      /\ pc[p] = "test_connected"
           => /\ Len(a) >= 1
              /\ conn[p] = "open" <=> Last(a).out = "connected"
              /\ conn[p] = "none" <=> (Len(a) = 2 /\ Last(a).out = "psycopg.Error")
      /\ (Len(a) >= 1 /\ Last(a).out = "connected")
           => pc[p] \in {"test_connected", "done"} /\ conn[p] # "none"
      /\ (Len(a) = 2 /\ Last(a).out = "psycopg.Error")
           => /\ conn[p] = "none"
              /\ \/ pc[p] = "test_connected"
                 \/ pc[p] = "done" /\ result[p] = Raise("ValueError", "login_failed")

\* C15 witness: both tiers failed with psycopg.Error and the routine has
\* returned to test_secret with no connection.
C15_Witness ==
  \E p \in Procs :
    /\ pc[p] = "test_connected" /\ conn[p] = "none"
    /\ Len(attempts[p]) = 2
    /\ attempts[p][1].out = "psycopg.Error" /\ attempts[p][2].out = "psycopg.Error"

\* C16: a connection is open only between a successful attempt and the end
\* of the liveness query; when the invocation has returned or failed the
\* connection is closed (once), or none was ever opened; an invocation opens
\* at most one connection.
C16_NoConnectionLeak ==
  \A p \in Procs :
    /\ conn[p] = "open" => pc[p] = "test_connected"
    /\ pc[p] = "done" => conn[p] \in {"none", "closed"}
    /\ Cardinality(Connected(attempts[p])) <= 1
    /\ conn[p] = "none" <=> Connected(attempts[p]) = {}
    /\ Count(calls[p], {"close"}) = (IF conn[p] = "closed" THEN 1 ELSE 0)

\* C16 witness: the liveness query failed on a connection made under
\* sslmode=require, and the invocation ended with the connection closed.
C16_Witness ==
  \E p \in Procs :
    /\ pc[p] = "done" /\ result[p] = Raise("psycopg.Error", "query")
    /\ Len(attempts[p]) = 2 /\ attempts[p][2].out = "connected"
    /\ conn[p] = "closed" /\ Count(calls[p], {"close"}) = 1

\* ------------------------------------------------- overlapping finishSecret
UpdateCalls == {"update_secret_version_stage"}

\* C17 (as stated): update_secret_version_stage is never issued while the
\* attempt token's version already holds AWSCURRENT, so that no finishSecret
\* ends with the store's re-staging error, overlapping invocations included.
C17_NeverRestages ==
  [][\A p \in Procs :
       (pc[p] = "finish_update" /\ pc'[p] = "done")
         => /\ "AWSCURRENT" \notin stages[token[p]]
            /\ (token[p] \in finishedOk => result'[p].status = "ok")]_vars

\* C17 (amended): finish_secret goes on to the update only when its own
\* describe_secret did not show the token's version as AWSCURRENT; a
\* finishSecret that reads the metadata while the token is AWSCURRENT returns
\* success with no update call and no store change; an update issued after an
\* overlapping invocation has already moved the label is refused by the store,
\* which stays as that invocation left it, and the invocation fails with the
\* store's error.
C17_UpdateOnlyAfterStaleRead ==
  [][\A p \in Procs :
       /\ (pc[p] = "finish_describe" /\ pc'[p] = "finish_update")
            => "AWSCURRENT" \notin stages[token[p]]
       /\ (pc[p] = "finish_describe" /\ pc'[p] # pc[p] /\ "AWSCURRENT" \in stages[token[p]])
            => /\ pc'[p] = "done" /\ result'[p] = Ok("finish_noop")
               /\ Count(calls'[p], UpdateCalls) = 0
               /\ UNCHANGED store
       /\ (HandlerStep(p) /\ step[p] = "finishSecret" /\ rotationEnabled # "false"
             /\ "AWSCURRENT" \in stages[token[p]])
            => /\ pc'[p] = "done" /\ result'[p].status = "ok"
               /\ Count(calls'[p], UpdateCalls) = 0
               /\ UNCHANGED store
       /\ (pc[p] = "finish_update" /\ pc'[p] = "done" /\ "AWSCURRENT" \in stages[token[p]])
            => /\ token[p] \in finishedOk
               /\ result'[p] = Raise("InvalidParameterException", "update")
               /\ Count(calls'[p], UpdateCalls) = 1
               /\ UNCHANGED store]_vars

\* C17 witness: two finishSecret invocations for one token both read the
\* metadata before either moved the label; one moved it, the other's update
\* was refused.
C17_Witness ==
  \E p \in Procs, q \in Procs :
    /\ p # q /\ token[p] = token[q]
    /\ step[p] = "finishSecret" /\ step[q] = "finishSecret"
    /\ result[p] = Ok("finished")
    /\ pc[q] = "done" /\ result[q] = Raise("InvalidParameterException", "update")
    /\ calls[q] = <<"describe_secret", "describe_secret", "update_secret_version_stage">>
    /\ token[q] \in finishedOk /\ "AWSCURRENT" \in stages[token[q]]

\* ------------------------------------------------- overlapping createSecret
Generated(p) == step[p] = "createSecret" /\ Count(calls[p], GenerateCalls) = 1

C19_CurrentHasDocument ==
  \A v \in CurrentHolders(stages) : v \in DOMAIN docs

\* ------------------------------------------- createSecret over usernames
\* Usernames the AWSCURRENT document may carry: names with and without
\* surrounding whitespace, among them the empty and the blank ones.
GenNames ==
  { << >>, <<"a", "d", "m", "i", "n">>, <<"A", "d", "m", "i", "n">>,
    <<"A", "D", "M", "I", "N">>, <<"a", "D", "m", "I", "n">>,
    <<"a", "p", "p">>, <<"a", "d", "m", "i">>, <<"a", "d", "m", "i", "n", "s">>,
    <<"a", "d", " ", "m", "i", "n">> }

GenPads == { << >>, <<" ">>, <<"\t">>, <<" ", "\n">> }

GenUsernames == {pre \o n \o suf : pre \in GenPads, n \in GenNames, suf \in GenPads}

InitGen ==
  /\ rotationEnabled = "true"
  /\ stages = [v \in Versions |->
                 CASE v = "v1" -> {"AWSCURRENT"} [] v = "v2" -> {"AWSPENDING"} [] OTHER -> {}]
  /\ \E u \in GenUsernames : docs = [v \in {"v1"} |-> GoodDoc(u)]
  /\ InitIdle
  /\ phase = 0

\* The scheduler delivers createSecret for the pending version.
InvokeCreate(p) ==
  /\ invocations < MaxInvocations
  /\ invocations' = invocations + 1
  /\ Start(p, "createSecret", "v2")
  /\ UNCHANGED sched

NextGen ==
  \E p \in Procs :
    \/ InvokeCreate(p)
    \/ Handler(p)
    \/ CreateGetCurrent(p)
    \/ CreateGetPending(p)
    \/ CreateGenerate(p)
    \/ CreatePut(p)

SpecGen == InitGen /\ [][NextGen]_vars

GenerateStep(p) == pc[p] = "create_generate" /\ pc'[p] # "create_generate"

IsBlank(u) == \A i \in 1..Len(u) : IsSpace(u[i])

\* u is "admin" in any letter case, between any amount of whitespace
IsAdminSpelling(u) ==
  \E i \in 0..Len(u) :
    /\ i + 5 <= Len(u)
    /\ \A k \in 1..i : IsSpace(u[k])
    /\ \A k \in (i + 6)..Len(u) : IsSpace(u[k])
    /\ \A k \in 1..5 :
         u[i + k] \in {<<"a", "d", "m", "i", "n">>[k], <<"A", "D", "M", "I", "N">>[k]}

\* C12 (as claimed): for every username that is empty after trimming (the
\* empty string and every whitespace-only string) generate_auth_token raises
\* the validation error and requests no token from the signer.
C12_BlankUsernameRejected ==
  [][\A p \in Procs :
       (GenerateStep(p) /\ IsBlank(current_dict[p][1].username))
       => /\ result'[p] = Raise("ValueError", "empty_username")
          /\ tokensIssued' = tokensIssued
          /\ calls'[p] = calls[p]]_vars

\* C13: for every non-empty username generate_auth_token makes exactly one
\* signing request, on the admin path iff the username trimmed and lower-cased
\* is "admin" and on the standard path otherwise; every call makes its own
\* request and gets its own token.
C13_OneRequestOnTheRightPath ==
  [][\A p \in Procs :
       (GenerateStep(p) /\ current_dict[p][1].username # << >>)
       => /\ tokensIssued' = tokensIssued + 1
          /\ calls'[p] =
               Append(calls[p],
                      IF IsAdminSpelling(current_dict[p][1].username)
                        THEN "generate_db_connect_admin_auth_token"
                        ELSE "generate_db_connect_auth_token")
          /\ current_dict'[p][1].password.scope =
               (IF IsAdminSpelling(current_dict[p][1].username) THEN "admin" ELSE "standard")
          /\ \A q \in Procs \ {p} :
               current_dict[q] # << >>
               => current_dict'[p][1].password.id # current_dict[q][1].password.id]_vars

\* C13 witness: two overlapping createSecret invocations for the username
\* "\tAdmin \n" each made one request on the admin path and got two tokens.
C13_Witness ==
  /\ tokensIssued = 2
  /\ docs["v1"].username = <<"\t", "A", "d", "m", "i", "n", " ", "\n">>
  /\ \A p \in Procs :
       /\ pc[p] = "create_put"
       /\ Count(calls[p], {"generate_db_connect_admin_auth_token"}) = 1
       /\ Count(calls[p], {"generate_db_connect_auth_token"}) = 0
  /\ current_dict["i1"][1].password # current_dict["i2"][1].password

\* ------------------------------------ createSecret / testSecret over shapes
\* Every combination of present and absent keys, with a supported and an
\* unsupported engine value.
ShapeDocs ==
  { MkDoc(keys, UAppUser, StaticPassword, e) :
      keys \in SUBSET AllKeys, e \in {"postgres", "mysql"} }

InitShape ==
  /\ rotationEnabled = "true"
  /\ stages = [v \in Versions |->
                 CASE v = "v1" -> {"AWSCURRENT"} [] v = "v2" -> {"AWSPENDING"} [] OTHER -> {}]
  /\ \E cur \in ShapeDocs :
       \/ docs = [v \in {"v1"} |-> cur]
       \/ \E pend \in ShapeDocs : docs = [v \in {"v1", "v2"} |-> IF v = "v1" THEN cur ELSE pend]
  /\ InitIdle
  /\ phase = 0

\* The scheduler delivers createSecret or testSecret for the pending version.
InvokeFetching(p) ==
  /\ invocations < MaxInvocations
  /\ invocations' = invocations + 1
  /\ \E s \in {"createSecret", "testSecret"} : Start(p, s, "v2")
  /\ UNCHANGED sched

NextShape ==
  \E p \in {"i1"} :
    \/ InvokeFetching(p)
    \/ Handler(p)
    \/ CreateGetCurrent(p)
    \/ CreateGetPending(p)
    \/ CreateGenerate(p)
    \/ CreatePut(p)
    \/ TestGetPending(p)
    \/ GetAmazonRootCert(p)
    \/ ConnectVerifyFull(p)
    \/ ConnectRequire(p)
    \/ TestConnected(p)

SpecShape == InitShape /\ [][NextShape]_vars

WellFormed(d) ==
  /\ "engine" \in d.keys /\ d.engine = "postgres"
  /\ {"username", "password", "host"} \subseteq d.keys

\* The invocation ends on a rejected document, having done nothing else.
Rejected(p) ==
  /\ pc'[p] = "done"
  /\ result'[p].status = "error" /\ result'[p].kind = "KeyError"
  /\ UNCHANGED <<store, tokensIssued, current_dict, conn, cert, attempts>>
  /\ Count(calls'[p], GenerateCalls \cup {"put_secret_value", "requests.get",
                                          "connect_verify_full", "connect_require"}) = 0

Driver == "i1"

AttemptToken == "v2"

PhaseStep == <<"createSecret", "setSecret", "testSecret", "finishSecret">>

Completed == Len(PhaseStep) + 1

InitRotation == InitStore /\ InitIdle /\ phase = 1

Schedule(p) ==
  /\ phase \in 1..Completed
  /\ pc[p] \in {"idle", "done"}
  /\ LET returned == pc[p] = "done" /\ result[p].status = "ok"
         failed == pc[p] = "done" /\ result[p].status = "error"
         next == IF returned /\ phase < Completed THEN phase + 1 ELSE phase IN
       /\ phase' = next
       /\ retried' = (retried \/ failed)
       /\ IF next = Completed
            THEN \E s \in Steps : Start(p, s, AttemptToken)
            ELSE Start(p, PhaseStep[next], AttemptToken)
  /\ UNCHANGED invocations

NextRotation ==
  \E p \in {Driver} :
    \/ Schedule(p)
    \/ Handler(p)
    \/ CreateGetCurrent(p)
    \/ CreateGetPending(p)
    \/ CreateGenerate(p)
    \/ CreatePut(p)
    \/ SetSecret(p)
    \/ TestGetPending(p)
    \/ GetAmazonRootCert(p)
    \/ ConnectVerifyFull(p)
    \/ ConnectRequire(p)
    \/ TestConnected(p)
    \/ FinishDescribe(p)
    \/ FinishUpdate(p)

\* Every step that can be taken eventually is, and an external call that is
\* made again and again eventually succeeds: the certificate download, the
\* connect under one of the two sslmodes, the liveness query and commit.
FairRotation ==
  /\ WF_vars(NextRotation)
  /\ SF_vars(FetchCert(Driver, TRUE))
  /\ SF_vars(VerifyFullAttempt(Driver, "connected") \/ RequireAttempt(Driver, "connected"))
  /\ SF_vars(conn[Driver] = "open" /\ RunQuery(Driver, "committed"))

SpecRotation == InitRotation /\ [][NextRotation]_vars /\ FairRotation

TokenCurrent == "AWSCURRENT" \in stages[AttemptToken]

\* Once the token is AWSCURRENT it stays so, and every invocation for it
\* returns success from the handler without changing the store.
AfterCompletion(p) ==
  /\ TokenCurrent => TokenCurrent'
  /\ (TokenCurrent /\ HandlerStep(p) /\ token[p] = AttemptToken)
       => pc'[p] = "done" /\ result'[p].status = "ok" /\ UNCHANGED store
  /\ (TokenCurrent /\ token[p] = AttemptToken) => UNCHANGED store

RotationCanStart ==
  /\ rotationEnabled # "false"
  /\ secret_dict_error(docs["v1"]) = "none"
  /\ generate_auth_token(docs["v1"].username) # "ValueError"

====
